---- MODULE Spec2Model ----
(***************************************************************************)
(* Model of the company-research pipeline: the stage graph built by        *)
(* backend/graph.py and executed by graph.astream, the company analysis    *)
(* stage (backend/nodes/researchers/company.py) and the finalization       *)
(* stage (backend/nodes/editor.py).                                        *)
(*                                                                         *)
(* Text is a sequence of atoms: "x" is a unit of content, " " and "\n"     *)
(* are whitespace, "## References" and the reference atoms are the lines   *)
(* the assembly phase appends.  An optional value (None or a value) is a   *)
(* sequence of length 0 or 1.                                              *)
(***************************************************************************)
EXTENDS Integers, Sequences, FiniteSets, TLC

VARIABLES
    \* ---- Graph.__init__ ----
    graph,         \* the stage objects constructed so far, and whether the workflow is built
    \* ---- executor (graph.astream) ----
    status,        \* stage -> "idle" | "running" | "done" | "raised"
    step,          \* the set of stages of the current superstep
    run,           \* "constructing" | "config_error" (Graph.__init__ raised) | "built" |
                   \* "running" | "finished" | "aborted" (exception to the caller)
    snapshots,     \* the sequence of stage updates yielded to the caller
    \* ---- ResearchState ----
    obs,           \* "none" (no websocket_manager) | "nojob" (no job_id) | "present"
    site_scrape,   \* optional pre-fetched document
    messages,      \* the narrative log
    company_data,  \* optional: state['company_data'], a map url -> document
    other_data,    \* the three other analysis stages' keys: "unset" | "empty" | "docs"
    briefings,     \* briefing key -> optional text
    references,    \* the reference list
    report,        \* <<"unset">> (key never written) | <<"none">> | <<"text", t>>
    \* ---- CompanyAnalyzer.analyze locals ----
    ca,
    \* ---- Editor locals and observation history ----
    ed,
    \* ---- environment: what the external collaborators may do in this run ----
    env

gvars == <<graph, status, step, run, snapshots>>
svars == <<obs, site_scrape, messages, company_data, other_data, briefings,
           references, report>>
vars  == <<graph, status, step, run, snapshots, obs, site_scrape, messages, company_data,
           other_data, briefings, references, report, ca, ed, env>>

----------------------------------------------------------------------------
(* Bounds *)
MaxQueries == 2    \* sub-queries generated for one analysis stage
MaxChunks  == 3    \* chunks streamed by the generative backend in one finalization
MaxRefs    == 2    \* entries of the reference list

----------------------------------------------------------------------------
(* Text *)
WS == {" ", "\n"}

RECURSIVE LStrip(_)
LStrip(s) == IF s = <<>> THEN s
             ELSE IF Head(s) \in WS THEN LStrip(Tail(s)) ELSE s

RECURSIVE RStrip(_)
RStrip(s) == IF s = <<>> THEN s
             ELSE IF s[Len(s)] \in WS THEN RStrip(SubSeq(s, 1, Len(s) - 1)) ELSE s

\* str.strip()
Strip(s) == RStrip(LStrip(s))

\* sep.join(parts)
RECURSIVE Join(_, _)
Join(sep, parts) ==
    IF parts = <<>> THEN <<>>
    ELSE IF Len(parts) = 1 THEN parts[1]
    ELSE parts[1] \o sep \o Join(sep, Tail(parts))

\* "".join(parts)
Concat(parts) == Join(<<>>, parts)

None == <<>>
Some(v) == <<v>>

RECURSIVE SeqsUpTo(_, _)
SeqsUpTo(S, n) ==
    IF n = 0 THEN {<<>>}
    ELSE LET prev == SeqsUpTo(S, n - 1)
         IN  prev \cup {Append(p, x) : p \in {q \in prev : Len(q) = n - 1}, x \in S}

EmptyMap == [u \in {} |-> 0]

----------------------------------------------------------------------------
(* The stage graph: Graph.__init__ *)

research_nodes == {"financial_analyst", "news_scanner", "industry_analyst", "company_analyst"}

Nodes == {"grounding"} \cup research_nodes \cup
         {"collector", "curator", "enricher", "briefing", "editor", "output"}

entry_point == "grounding"
finish_point == "output"

\* lines 76-78 with the collector wired to grounding as well
EdgesCollectorEarly ==
    {<<"grounding", n>> : n \in research_nodes \cup {"collector"}}
         \cup {<<n, "collector">> : n \in research_nodes}
         \cup {<<"collector", "curator">>, <<"curator", "enricher">>,
               <<"enricher", "briefing">>, <<"briefing", "editor">>,
               <<"editor", "output">>}

\* line 90 with the editor wired to the enricher instead of the briefing stage
EdgesEditorEarly ==
    {<<"grounding", n>> : n \in research_nodes}
         \cup {<<n, "collector">> : n \in research_nodes}
         \cup {<<"collector", "curator">>, <<"curator", "enricher">>,
               <<"enricher", "briefing">>, <<"enricher", "editor">>,
               <<"editor", "output">>}

Edges == {<<"grounding", n>> : n \in research_nodes}
         \cup {<<n, "collector">> : n \in research_nodes}
         \cup {<<"collector", "curator">>, <<"curator", "enricher">>,
               <<"enricher", "briefing">>, <<"briefing", "editor">>,
               <<"editor", "output">>}

OtherAnalysts == research_nodes \ {"company_analyst"}

\* lines 40-50: the stage objects in the order they are constructed
ConstructionOrder ==
    <<"grounding", "financial_analyst", "news_scanner", "industry_analyst",
      "company_analyst", "collector", "curator", "enricher", "briefing",
      "editor", "output">>

\* a Graph whose __init__ returned
Built == [nodes |-> ConstructionOrder, workflow |-> TRUE]

\* Editor.__init__ without the check of the credential
EditorInitNeverRaises == FALSE

\* Editor.__init__: `if not self.gemini_key: raise ValueError(...)`
EditorInitRaises == ~env.key

\* lines 40-50: the next stage object is constructed; an error of the
\* constructor leaves Graph.__init__
G_Construct ==
    /\ run = "constructing" /\ Len(graph.nodes) < Len(ConstructionOrder)
    /\ LET n == ConstructionOrder[Len(graph.nodes) + 1]
       IN  IF n = "editor" /\ EditorInitRaises
           THEN /\ run' = "config_error"
                /\ graph' = graph
           ELSE /\ graph' = [graph EXCEPT !.nodes = Append(@, n)]
                /\ run' = run
    /\ UNCHANGED <<status, step, snapshots, obs, site_scrape, messages, company_data,
                   other_data, briefings, references, report, ca, ed, env>>

\* lines 53-93: the workflow, its nodes and its edges
G_BuildWorkflow ==
    /\ run = "constructing" /\ graph.nodes = ConstructionOrder
    /\ graph' = [graph EXCEPT !.workflow = TRUE]
    /\ run' = "built"
    /\ UNCHANGED <<status, step, snapshots, obs, site_scrape, messages, company_data,
                   other_data, briefings, references, report, ca, ed, env>>

\* Graph.run, lines 95-105: the workflow is compiled and astream starts at the
\* entry point
G_Run ==
    /\ run = "built"
    /\ run' = "running"
    /\ step' = {entry_point}
    /\ UNCHANGED <<graph, status, snapshots, obs, site_scrape, messages, company_data,
                   other_data, briefings, references, report, ca, ed, env>>

----------------------------------------------------------------------------
(* The executor: graph.astream runs the graph in supersteps.  The stages of *)
(* a superstep run concurrently; the next superstep holds the successors of *)
(* the stages that ran, and starts when every stage of the step returned.   *)

Successors(S) == {n \in Nodes : \E p \in S : <<p, n>> \in Edges}

StepComplete(st) == \A n \in step : st[n] = "done"

\* stage n returns: its update is yielded, and the superstep may end
Complete(n) ==
    LET st == [status EXCEPT ![n] = "done"]
        nx == Successors(step)
    IN  /\ status' = st
        /\ graph' = graph
        /\ snapshots' = Append(snapshots, n)
        /\ IF StepComplete(st)
           THEN /\ step' = nx
                /\ run' = IF nx = {} THEN "finished" ELSE "running"
           ELSE /\ step' = step
                /\ run' = run

\* an exception leaves stage n: astream re-raises it to the caller of Graph.run
Propagate(n) ==
    /\ status' = [status EXCEPT ![n] = "raised"]
    /\ run' = "aborted"
    /\ UNCHANGED <<graph, step, snapshots>>

Running(n) == run = "running" /\ n \in step /\ status[n] = "running"

----------------------------------------------------------------------------
(* Narrative entries *)
Entry(by, kind, warn, n) == [by |-> by, kind |-> kind, warn |-> warn, n |-> n]

SystemMessage == Entry("system", "system", FALSE, 0)

\* `messages = []` in place of the read of the state's list: the entry goes
\* to a fresh list
AppendToFresh(log, e) == <<e>>

\* `messages = state.get('messages', []); messages.append(e);
\* state['messages'] = messages`, with no suspension point in between
AppendMessage(log, e) == Append(log, e)

----------------------------------------------------------------------------
(* CompanyAnalyzer.analyze *)
Queries == {"q1", "q2"}
URLs == {"u1", "u2"}
company_url == "u1"
DefaultQuery == "overview"

QuerySeqs == SeqsUpTo(Queries, MaxQueries)

CaIdle == [pc |-> "idle", queries |-> <<>>, qi |-> 0, data |-> EmptyMap,
           msg |-> <<>>, issued |-> <<>>, returned |-> <<>>, wrote |-> {}]

\* the keys written at lines 31, 62 and 63 and the keys of the returned update
\* (lines 65-68)
CaReturnKeys == {"messages", "company_data", "message"}

\* lines 33-43: the site-scrape document seeds company_data
Seed == IF site_scrape # None
        THEN [u \in {company_url} |-> [query |-> DefaultQuery, origin |-> 0]]
        ELSE EmptyMap

\* `company_data.setdefault(url, doc)`: a locator already present keeps its
\* first document and tag
MergeKeepFirst(data, docs, q, i) ==
    [u \in (DOMAIN data) \cup docs |->
        IF u \in DOMAIN data THEN data[u] ELSE [query |-> q, origin |-> i]]

\* lines 50-53: every document of one retrieval is tagged with its query and stored
Merge(data, docs, q, i) ==
    [u \in (DOMAIN data) \cup docs |->
        IF u \in docs THEN [query |-> q, origin |-> i] ELSE data[u]]

\* lines 59-68: the narrative entry, the state key and the returned update
CaReturn(data, msg, returned) ==
    /\ messages' = AppendMessage(messages,
                          Entry("company_analyst", "summary", "error" \in {msg[i] : i \in DOMAIN msg},
                                Cardinality(DOMAIN data)))
    /\ company_data' = Some(data)
    /\ ca' = [ca EXCEPT !.pc = "done", !.data = data, !.msg = msg,
                        !.returned = returned, !.wrote = @ \cup CaReturnKeys]
    /\ Complete("company_analyst")

\* the handler resets company_data: `company_data = {}` in lines 56-57
DataOnErrorEmpty(data) == EmptyMap

\* lines 56-63: the handler only extends msg; company_data keeps the documents
\* stored before the error
DataOnError(data) == data

\* line 17 returns: lines 27-43, and the first retrieval call (line 49) if there
\* is a query
CA_GenerateQueries ==
    /\ Running("company_analyst") /\ ca.pc = "gen"
    /\ \E qs \in env.querySeqs :
          LET m0 == IF site_scrape # None THEN <<"start", "scrape">> ELSE <<"start">>
              log == AppendMessage(messages, Entry("company_analyst", "subqueries", FALSE, Len(qs)))
          IN  IF qs = <<>>
              THEN /\ messages' = AppendMessage(log,
                                   Entry("company_analyst", "summary", FALSE, Cardinality(DOMAIN Seed)))
                   /\ company_data' = Some(Seed)
                   /\ ca' = [ca EXCEPT !.pc = "done", !.queries = qs, !.data = Seed,
                                       !.msg = Append(m0, "found"),
                                       !.wrote = {"messages"} \cup CaReturnKeys]
                   /\ Complete("company_analyst")
              ELSE /\ messages' = log
                   /\ ca' = [ca EXCEPT !.pc = "search", !.queries = qs, !.qi = 1,
                                       !.data = Seed, !.msg = m0, !.issued = <<qs[1]>>,
                                       !.wrote = {"messages"}]
                   /\ UNCHANGED <<company_data, gvars>>
    /\ UNCHANGED <<obs, site_scrape, other_data, briefings, references, report,
                   ed, env>>

\* line 17 raises: it is outside the try of line 46, and run (lines 70-71)
\* catches nothing
CA_GenerateQueriesRaises ==
    /\ Running("company_analyst") /\ ca.pc = "gen"
    /\ ca' = [ca EXCEPT !.pc = "raised"]
    /\ Propagate("company_analyst")
    /\ UNCHANGED <<svars, ed, env>>

\* line 49 returns the documents of queries[qi]
CA_Search ==
    /\ Running("company_analyst") /\ ca.pc = "search"
    /\ \E docs \in env.results :
          LET q == ca.queries[ca.qi]
              data == IF docs # {} THEN Merge(ca.data, docs, q, ca.qi) ELSE ca.data
          IN  IF ca.qi = Len(ca.queries)
              THEN CaReturn(data, Append(ca.msg, "found"), Append(ca.returned, docs))
              ELSE /\ ca' = [ca EXCEPT !.qi = ca.qi + 1, !.data = data,
                                       !.returned = Append(@, docs),
                                       !.issued = Append(ca.issued, ca.queries[ca.qi + 1])]
                   /\ UNCHANGED <<messages, company_data, gvars>>
    /\ UNCHANGED <<obs, site_scrape, other_data, briefings, references, report,
                   ed, env>>

\* line 49 raises: the handler of lines 56-57 is outside the loop, which ends
CA_SearchRaises ==
    /\ Running("company_analyst") /\ ca.pc = "search"
    /\ CaReturn(DataOnError(ca.data), Append(ca.msg, "error"), ca.returned)
    /\ UNCHANGED <<obs, site_scrape, other_data, briefings, references, report,
                   ed, env>>

----------------------------------------------------------------------------
(* Editor: text helpers *)

briefing_keys == <<"company_briefing", "industry_briefing", "financial_briefing", "news_briefing">>

Phases == {"compose", "sweep", "clean"}

\* `if state.get(key) is not None`: the empty string counts as content
TruthyNotNone(opt) == opt # None

\* `if content := state.get(key)`: None and the empty string are both falsy
Truthy(opt) == opt # None /\ opt[1] # <<>>

\* lines 70-76: the briefings found, in the order of briefing_keys
RECURSIVE Collect(_, _)
Collect(b, i) ==
    IF i > Len(briefing_keys) THEN <<>>
    ELSE (IF Truthy(b[briefing_keys[i]]) THEN <<b[briefing_keys[i]][1]>> ELSE <<>>)
         \o Collect(b, i + 1)

individual_briefings == Collect(briefings, 1)

\* lines 184-187
combined_content == Join(<<"\n", "\n">>, individual_briefings)

\* line 160: the line of one reference
RefLine(r) == "* [" \o r \o "](" \o r \o ")"

\* lines 157-161 without the test of line 157: the header is appended even
\* when there is no reference
ReferenceSectionAlways(refs) ==
    Join(<<"\n">>, <<(<<"\n", "\n", "## References", "\n">>)>>
                   \o [i \in 1..Len(refs) |-> <<RefLine(refs[i])>>])

\* lines 157-161: the text appended to the final report
ReferenceSection(refs) ==
    IF refs = <<>> THEN <<>>
    ELSE Join(<<"\n">>, <<(<<"\n", "\n", "## References", "\n">>)>>
                        \o [i \in 1..Len(refs) |-> <<RefLine(refs[i])>>])

\* utils/markdown.py standardize_markdown: an idempotent normalisation of
\* blank-line spacing; runs of more than two newlines shrink to two and the
\* text is stripped
RECURSIVE Squeeze(_)
Squeeze(s) ==
    IF Len(s) < 3 THEN s
    ELSE IF s[1] = "\n" /\ s[2] = "\n" /\ s[3] = "\n" THEN Squeeze(Tail(s))
    ELSE <<s[1]>> \o Squeeze(Tail(s))

standardize_markdown(s) == Strip(Squeeze(s))

----------------------------------------------------------------------------
(* The generative backend: what the k+1-th pull of a streamed call yields *)
ChunkSet == {<<"x">>, <<" ">>}

Pull(t, c) == [t |-> t, c |-> c]

NoScript == [p \in Phases |-> [chunks |-> <<>>, fail |-> FALSE]]

Offers(ph, k, total) ==
    IF env.fixed
    THEN LET sc == env.ph[ph]
         IN  IF k < Len(sc.chunks) THEN {Pull("chunk", sc.chunks[k + 1])}
             ELSE IF sc.fail THEN {Pull("raise", <<>>)} ELSE {Pull("end", <<>>)}
    ELSE {Pull("chunk", c) : c \in (IF total < env.maxChunks THEN env.chunks ELSE {})}
         \cup {Pull("end", <<>>), Pull("raise", <<>>)}

----------------------------------------------------------------------------
(* The observer channel *)
Event(kind, tag, text) == [kind |-> kind, tag |-> tag, text |-> text]

\* `if websocket_manager := ...: if job_id := ...`
ObserverPresent == obs = "present"

\* send_status_update returns (TRUE) or raises (FALSE)
SendOutcomes == IF ObserverPresent THEN {TRUE, FALSE} ELSE {TRUE}

Emit(events, e) == IF ObserverPresent THEN Append(events, e) ELSE events

----------------------------------------------------------------------------
(* Editor.compile_briefings and Editor.edit_report *)

EdIdle == [pc |-> "idle", phase |-> "none", acc |-> <<>>, pulled |-> 0, streamed |-> 0,
           chunk |-> <<>>,
           input   |-> [p \in Phases |-> None],
           result  |-> [p \in Phases |-> None],
           outcome |-> [p \in Phases |-> "none"],
           calls   |-> [p \in Phases |-> 0],
           events |-> <<>>, handed |-> None, assembled |-> None, ret |-> None,
           sendFailed |-> FALSE]

\* `accumulated_text = chunk_text`: the text so far is overwritten
AccumulateOverwrites(acc, c) == c

\* `accumulated_text += chunk_text`
Accumulate(acc, c) == acc \o c

\* `return (accumulated_text or "").strip()` of the three phases
PhaseResult(ph, acc) == Strip(acc)

\* content_sweep's handler returns the partial text instead of its input
FallbackSweepPartial(ph, content, acc) ==
    IF ph = "sweep" THEN Strip(acc) ELSE Strip(content)

\* clean_markdown's handler returns the partial text instead of its input
FallbackCleanPartial(ph, content, acc) ==
    IF ph = "clean" THEN Strip(acc) ELSE Strip(content)

\* `return (combined_content or "").strip()`, `return (content or "").strip()`
PhaseFallback(ph, content, acc) == Strip(content)

\* the stage goes on to its next suspension point
Continue(e) ==
    /\ ed' = e
    /\ UNCHANGED <<messages, report, gvars>>

\* the entries whose text holds a warning line: lines 80 and 89
WarningKinds == {"no_briefings", "failed"}

\* lines 79-106: the report key, the narrative entry, and the stage returns
CompileBriefingsReturns(e, kind, rep) ==
    /\ report' = rep
    /\ messages' = AppendMessage(messages, Entry("editor", kind, kind \in WarningKinds,
                                                 Len(individual_briefings)))
    /\ ed' = [e EXCEPT !.pc = "done"]
    /\ Complete("editor")

\* line 86 dropped: whatever edit_report returns is stored as the report
ReportEmptyUnchecked(r) == FALSE

\* line 86: `if not compiled_report or not compiled_report.strip()`
ReportEmpty(r) == r = <<>> \/ Strip(r) = <<>>

\* edit_report returns r to line 85; lines 86-93
EditReportReturns(e, r) ==
    IF ReportEmpty(r)
    THEN CompileBriefingsReturns([e EXCEPT !.ret = Some(r)], "failed", <<"none">>)
    ELSE CompileBriefingsReturns([e EXCEPT !.ret = Some(r)], "complete", <<"text", r>>)

\* a phase is entered: generate_content is called on the phase's input
StartPhase(e, ph, content) ==
    Continue([e EXCEPT !.pc = "pull", !.phase = ph, !.acc = <<>>, !.pulled = 0,
                       !.input[ph] = Some(content), !.calls[ph] = @ + 1])

\* lines 153-175: assembly of the format-enforcement result r
Assemble(e, r) ==
    LET withRefs == r \o ReferenceSection(references)
    IN  EditReportReturns([e EXCEPT !.handed = Some(r), !.assembled = Some(withRefs)],
                          standardize_markdown(withRefs))

\* a phase returned r: lines 129-136 and 138-151
PhaseReturns(e, r, how) ==
    LET e1 == [e EXCEPT !.result[e.phase] = Some(r), !.outcome[e.phase] = how]
    IN  CASE e.phase = "compose" ->
               IF r = <<>> THEN EditReportReturns(e1, <<>>)
               ELSE StartPhase(e1, "sweep", r)
          [] e.phase = "sweep" ->
               IF r = <<>> THEN EditReportReturns(e1, <<>>)
               ELSE Continue([e1 EXCEPT !.pc = "notify_cleanup"])
          [] e.phase = "clean" -> Assemble(e1, r)

EdUnchanged == UNCHANGED <<obs, site_scrape, company_data, other_data, briefings,
                           references, ca, env>>

\* lines 28-39: the 'initialization' status; an error here leaves the stage
E_NotifyInit ==
    /\ Running("editor") /\ ed.pc = "notify_init"
    /\ \E ok \in SendOutcomes :
          IF ok
          THEN Continue([ed EXCEPT !.pc = "notify_collect",
                            !.events = Emit(@, Event("status", "initialization", <<>>))])
          ELSE /\ ed' = [ed EXCEPT !.pc = "raised", !.sendFailed = TRUE]
               /\ Propagate("editor")
               /\ UNCHANGED <<messages, report>>
    /\ EdUnchanged

\* lines 57-83: the 'collecting_briefings' status, then the briefings are collected
E_NotifyCollect ==
    /\ Running("editor") /\ ed.pc = "notify_collect"
    /\ \E ok \in SendOutcomes :
          IF ok
          THEN LET e == [ed EXCEPT !.events = Emit(@, Event("status", "collecting_briefings", <<>>))]
               IN  IF individual_briefings = <<>>
                   THEN CompileBriefingsReturns(e, "no_briefings", <<"none">>)
                   ELSE Continue([e EXCEPT !.pc = "notify_compile"])
          ELSE /\ ed' = [ed EXCEPT !.pc = "raised", !.sendFailed = TRUE]
               /\ Propagate("editor")
               /\ UNCHANGED <<messages, report>>
    /\ EdUnchanged

\* lines 115-128: the 'compilation' status, then compose is called; an error
\* here is caught at line 176
E_NotifyCompile ==
    /\ Running("editor") /\ ed.pc = "notify_compile"
    /\ \E ok \in SendOutcomes :
          IF ok
          THEN StartPhase([ed EXCEPT !.events = Emit(@, Event("status", "compilation", <<>>))],
                          "compose", combined_content)
          ELSE EditReportReturns([ed EXCEPT !.sendFailed = TRUE], <<>>)
    /\ EdUnchanged

\* `async for chunk in response` of the current phase: a chunk, the end of the
\* stream, or an error of the backend
E_Pull ==
    /\ Running("editor") /\ ed.pc = "pull"
    /\ \E o \in Offers(ed.phase, ed.pulled, ed.streamed) :
          CASE o.t = "chunk" ->
                 Continue([ed EXCEPT !.acc = Accumulate(@, o.c), !.pulled = @ + 1,
                                     !.streamed = @ + 1,
                                     !.chunk = IF ObserverPresent THEN o.c ELSE <<>>,
                                     !.pc = IF ObserverPresent THEN "forward" ELSE "pull"])
            [] o.t = "end" ->
                 PhaseReturns(ed, PhaseResult(ed.phase, ed.acc), "ok")
            [] o.t = "raise" ->
                 PhaseReturns(ed, PhaseFallback(ed.phase, ed.input[ed.phase][1], ed.acc), "fallback")
    /\ EdUnchanged

\* the chunk is forwarded to the observer; an error is caught by the phase
E_Forward ==
    /\ Running("editor") /\ ed.pc = "forward"
    /\ \E ok \in SendOutcomes :
          IF ok
          THEN Continue([ed EXCEPT !.pc = "pull", !.chunk = <<>>,
                            !.events = Append(@, Event("chunk", ed.phase, ed.chunk))])
          ELSE PhaseReturns([ed EXCEPT !.sendFailed = TRUE, !.chunk = <<>>],
                            PhaseFallback(ed.phase, ed.input[ed.phase][1], ed.acc), "fallback")
    /\ EdUnchanged

\* the status of lines 141-149 sent with the substep of lines 118-126
CleanupSubstepCopied == "compilation"

\* line 147: `"substep": "cleanup"`
CleanupSubstep == "cleanup"

\* `clean_markdown(state, initial_report, company)`: the compose result is
\* passed instead of the sweep result
CleanInputInitial(e) == e.result["compose"][1]

\* line 151: `clean_markdown(state, edited_report, company)`
CleanInput(e) == e.result["sweep"][1]

\* lines 138-151: the 'cleanup' status, then format enforcement is called
E_NotifyCleanup ==
    /\ Running("editor") /\ ed.pc = "notify_cleanup"
    /\ \E ok \in SendOutcomes :
          IF ok
          THEN StartPhase([ed EXCEPT !.events = Emit(@, Event("status", CleanupSubstep, <<>>))],
                          "clean", CleanInput(ed))
          ELSE EditReportReturns([ed EXCEPT !.sendFailed = TRUE], <<>>)
    /\ EdUnchanged

----------------------------------------------------------------------------
(* The stages whose code is outside the modelled files *)

StageOf == [company_briefing |-> "company_analyst", industry_briefing |-> "industry_analyst",
            financial_briefing |-> "financial_analyst", news_briefing |-> "news_scanner"]

HasData(n) == IF n = "company_analyst"
              THEN company_data # None /\ DOMAIN company_data[1] # {}
              ELSE other_data[n] = "docs"

\* the state key each of the other analysis stages owns
DataKey == [financial_analyst |-> "financial_data", news_scanner |-> "news_data",
            industry_analyst |-> "industry_data"]

\* the keys stage n has written: its narrative entry and its own data key
AnalystWrote(n) == IF other_data[n] = "unset" THEN {} ELSE {"messages", DataKey[n]}

RefSeq(n) == [i \in 1..n |-> "r" \o ToString(i)]

BriefingOutcomes(k) == IF HasData(StageOf[k]) THEN env.briefs ELSE {None}

BriefingValues == {None, Some(<<>>), Some(<<"x">>)}

Grounding_Finish ==
    /\ Running("grounding")
    /\ \E s \in {None, Some("page")} : site_scrape' = s
    /\ Complete("grounding")
    /\ UNCHANGED <<obs, messages, company_data, other_data, briefings, references,
                   report, ca, ed, env>>

Analyst_Finish(n) ==
    /\ n \in OtherAnalysts /\ Running(n)
    /\ \E r \in {"docs", "empty"} :
          /\ other_data' = [other_data EXCEPT ![n] = r]
          /\ messages' = Append(messages, Entry(n, "summary", r = "empty", 0))
    /\ Complete(n)
    /\ UNCHANGED <<obs, site_scrape, company_data, briefings, references, report,
                   ca, ed, env>>

Collector_Finish ==
    /\ Running("collector")
    /\ Complete("collector")
    /\ UNCHANGED <<svars, ca, ed, env>>

Curator_Finish ==
    /\ Running("curator")
    /\ \E n \in (IF \E a \in research_nodes : HasData(a) THEN env.refCounts ELSE {0}) :
          references' = RefSeq(n)
    /\ Complete("curator")
    /\ UNCHANGED <<obs, site_scrape, messages, company_data, other_data, briefings,
                   report, ca, ed, env>>

Enricher_Finish ==
    /\ Running("enricher")
    /\ Complete("enricher")
    /\ UNCHANGED <<svars, ca, ed, env>>

Briefing_Finish ==
    /\ Running("briefing")
    /\ \E b \in [DOMAIN StageOf -> BriefingValues] :
          /\ \A k \in DOMAIN StageOf : b[k] \in BriefingOutcomes(k)
          /\ briefings' = b
    /\ Complete("briefing")
    /\ UNCHANGED <<obs, site_scrape, messages, company_data, other_data, references,
                   report, ca, ed, env>>

Output_Finish ==
    /\ Running("output")
    /\ Complete("output")
    /\ UNCHANGED <<svars, ca, ed, env>>

\* the executor schedules stage n of the current superstep
StartStage(n) ==
    /\ run = "running" /\ n \in step /\ status[n] = "idle"
    /\ status' = [status EXCEPT ![n] = "running"]
    /\ ca' = IF n = "company_analyst" THEN [CaIdle EXCEPT !.pc = "gen"] ELSE ca
    /\ ed' = IF n = "editor" THEN [EdIdle EXCEPT !.pc = "notify_init"] ELSE ed
    /\ UNCHANGED <<graph, step, run, snapshots, svars, env>>

----------------------------------------------------------------------------
(* The whole pipeline: Graph.run from a freshly constructed Graph *)

ObsModes == {"none", "nojob", "present"}

\* the generative backend during one run: healthy (every call streams one
\* chunk of content), down (every call raises) or silent (every call streams
\* nothing)
Stream == [chunks |-> <<(<<"x">>)>>, fail |-> FALSE]
Broken == [chunks |-> <<>>, fail |-> TRUE]
Silent == [chunks |-> <<>>, fail |-> FALSE]

PipelineScripts == {[p \in Phases |-> sc] : sc \in {Stream, Broken, Silent}}

\* one sub-query, retrieval that finds nothing or one document, a briefing
\* for every category with data, one reference
PipelineEnv(scr) == [querySeqs |-> {<<"q1">>}, results |-> {{}, {"u2"}},
                     briefs |-> {Some(<<"x">>)}, refCounts |-> {1},
                     chunks |-> {<<"x">>}, maxChunks |-> 0,
                     fixed |-> TRUE, ph |-> scr, key |-> TRUE]

Init ==
    /\ graph = [nodes |-> <<>>, workflow |-> FALSE]
    /\ status = [n \in Nodes |-> "idle"]
    /\ step = {}
    /\ run = "constructing"
    /\ snapshots = <<>>
    /\ obs \in {"none", "present"}
    /\ site_scrape = None
    /\ messages = <<SystemMessage>>
    /\ company_data = None
    /\ other_data = [n \in OtherAnalysts |-> "unset"]
    /\ briefings = [k \in DOMAIN StageOf |-> None]
    /\ references = <<>>
    /\ report = <<"unset">>
    /\ ca = CaIdle
    /\ ed = EdIdle
    /\ env \in {[PipelineEnv(scr) EXCEPT !.key = k] : scr \in PipelineScripts, k \in BOOLEAN}

CompanyNext ==
    \/ CA_GenerateQueries
    \/ CA_GenerateQueriesRaises
    \/ CA_Search
    \/ CA_SearchRaises

EditorNext ==
    \/ E_NotifyInit
    \/ E_NotifyCollect
    \/ E_NotifyCompile
    \/ E_Pull
    \/ E_Forward
    \/ E_NotifyCleanup

Next ==
    \/ G_Construct
    \/ G_BuildWorkflow
    \/ G_Run
    \/ \E n \in Nodes : StartStage(n)
    \/ Grounding_Finish
    \/ \E n \in OtherAnalysts : Analyst_Finish(n)
    \/ CompanyNext
    \/ Collector_Finish
    \/ Curator_Finish
    \/ Enricher_Finish
    \/ Briefing_Finish
    \/ EditorNext
    \/ Output_Finish

Spec == Init /\ [][Next]_vars

----------------------------------------------------------------------------
(* The company analysis stage alone, from the state grounding leaves, with  *)
(* every sub-query set and every retrieval result within the bounds         *)

CompanyEnv == [querySeqs |-> QuerySeqs, results |-> SUBSET URLs,
               briefs |-> BriefingValues, refCounts |-> 0..MaxRefs,
               chunks |-> ChunkSet, maxChunks |-> MaxChunks,
               fixed |-> FALSE, ph |-> NoScript, key |-> TRUE]

InitCompany ==
    /\ graph = Built
    /\ status = [n \in Nodes |-> IF n = "grounding" THEN "done" ELSE "idle"]
    /\ step = research_nodes
    /\ run = "running"
    /\ snapshots = <<"grounding">>
    /\ obs \in ObsModes
    /\ site_scrape \in {None, Some("page")}
    /\ messages = <<SystemMessage>>
    /\ company_data = None
    /\ other_data = [n \in OtherAnalysts |-> "unset"]
    /\ briefings = [k \in DOMAIN StageOf |-> None]
    /\ references = <<>>
    /\ report = <<"unset">>
    /\ ca = CaIdle
    /\ ed = EdIdle
    /\ env = CompanyEnv

NextCompany ==
    \/ StartStage("company_analyst")
    \/ CompanyNext

SpecCompany == InitCompany /\ [][NextCompany]_vars

----------------------------------------------------------------------------
(* The finalization stage alone, from the states the briefing stage can     *)
(* leave (no reference, or a reference list of the maximal length), with    *)
(* every stream of the generative backend within the bounds                 *)

EditorEnv == [querySeqs |-> QuerySeqs, results |-> SUBSET URLs,
              briefs |-> BriefingValues, refCounts |-> 0..MaxRefs,
              chunks |-> ChunkSet, maxChunks |-> MaxChunks,
              fixed |-> FALSE, ph |-> NoScript, key |-> TRUE]

BeforeEditor == <<"grounding", "financial_analyst", "news_scanner", "industry_analyst",
                  "company_analyst", "collector", "curator", "enricher", "briefing">>

InitEditor ==
    /\ graph = Built
    /\ status = [n \in Nodes |-> IF n \in {"editor", "output"} THEN "idle" ELSE "done"]
    /\ step = {"editor"}
    /\ run = "running"
    /\ snapshots = BeforeEditor
    /\ obs \in ObsModes
    /\ site_scrape = None
    /\ messages = <<SystemMessage,
                    Entry("financial_analyst", "summary", FALSE, 0),
                    Entry("news_scanner", "summary", FALSE, 0),
                    Entry("industry_analyst", "summary", FALSE, 0),
                    Entry("company_analyst", "subqueries", FALSE, 1),
                    Entry("company_analyst", "summary", FALSE, 1)>>
    /\ company_data = Some([u \in {"u2"} |-> [query |-> "q1", origin |-> 1]])
    /\ other_data = [n \in OtherAnalysts |-> "docs"]
    /\ briefings \in [DOMAIN StageOf -> BriefingValues]
    /\ references \in {RefSeq(n) : n \in {0, MaxRefs}}
    /\ report = <<"unset">>
    /\ ca = [CaIdle EXCEPT !.pc = "done", !.queries = <<"q1">>, !.qi = 1,
                           !.data = [u \in {"u2"} |-> [query |-> "q1", origin |-> 1]],
                           !.msg = <<"start", "found">>, !.issued = <<"q1">>,
                           !.returned = <<{"u2"}>>,
                           !.wrote = CaReturnKeys]
    /\ ed = EdIdle
    /\ env = EditorEnv

NextEditor ==
    \/ StartStage("editor")
    \/ EditorNext

SpecEditor == InitEditor /\ [][NextEditor]_vars

----------------------------------------------------------------------------
(* Claims about the pipeline (Spec) *)

\* C11: the keys the company analysis stage writes (by assignment into the
\* state and through its returned update) are disjoint from the keys each of
\* the other three analysis stages writes.
C11_DisjointWriteKeys ==
    \A n \in OtherAnalysts : ca.wrote \cap AnalystWrote(n) = {}

\* C1: the collector stage does not start until all four analysis stages
\* have completed, whatever the order in which they complete.
C1_CollectorAfterAnalysts ==
    status["collector"] # "idle" => \A a \in research_nodes : status[a] = "done"

\* the collector runs after the company stage completed first and the news
\* stage last
C1_Witness ==
    /\ status["collector"] = "running"
    /\ Len(snapshots) = 5
    /\ snapshots[2] = "company_analyst"
    /\ snapshots[5] = "news_scanner"

Started(n) == status[n] \in {"running", "done", "raised"}

Chain == <<"collector", "curator", "enricher", "briefing", "editor", "output">>

\* C14: when GEMINI_API_KEY is missing, constructing the Graph fails while
\* the finalization stage is constructed, before the workflow is built and
\* before any stage runs.
C14_MissingKeyFailsConstruction ==
    ~env.key =>
        /\ run \in {"constructing", "config_error"}
        /\ ~graph.workflow
        /\ "editor" \notin {graph.nodes[i] : i \in DOMAIN graph.nodes}
        /\ \A n \in Nodes : status[n] = "idle"
        /\ snapshots = <<>>
        /\ run = "config_error" => ConstructionOrder[Len(graph.nodes) + 1] = "editor"

\* construction failed at Editor() with the credential missing
C14_Witness ==
    /\ ~env.key /\ run = "config_error"
    /\ graph.nodes[Len(graph.nodes)] = "briefing"

EntriesBy(n, kind) == {i \in DOMAIN messages : messages[i].by = n /\ messages[i].kind = kind}

\* C16: appends to the narrative log are atomic and never lost, whatever the
\* interleaving of the company analysis stage with the other analysis stages:
\* every entry a stage appended is in the log, and a step never removes or
\* changes an entry already in the log.
C16_LogAppendOnly ==
    /\ [](/\ ca.pc \in {"search", "done"} =>
                Cardinality(EntriesBy("company_analyst", "subqueries")) = 1
          /\ ca.pc = "done" => Cardinality(EntriesBy("company_analyst", "summary")) = 1
          /\ \A n \in OtherAnalysts :
                status[n] = "done" => Cardinality(EntriesBy(n, "summary")) = 1
          /\ ed.pc = "done" => \E i \in DOMAIN messages : messages[i].by = "editor"
          /\ messages[1] = SystemMessage)
    /\ [][/\ Len(messages') >= Len(messages)
          /\ SubSeq(messages', 1, Len(messages)) = messages]_vars

\* another analysis stage appended its entry between the two appends of the
\* company stage, and the finalization stage appended last
C16_Witness ==
    /\ ed.pc = "done"
    /\ \E i, j, k \in DOMAIN messages :
          /\ i < j /\ j < k
          /\ messages[i] = Entry("company_analyst", "subqueries", FALSE, 1)
          /\ messages[j].by \in OtherAnalysts
          /\ messages[k].by = "company_analyst" /\ messages[k].kind = "summary"

\* the stages reachable from the set S along one or more edges
RECURSIVE Closure(_)
Closure(S) ==
    LET T == S \cup {n \in Nodes : \E p \in S : <<p, n>> \in Edges}
    IN  IF T = S THEN S ELSE Closure(T)

ReachableFrom(n) == Closure({m \in Nodes : <<n, m>> \in Edges})

WellFormed ==
    /\ \A e \in Edges : e[1] \in Nodes /\ e[2] \in Nodes
    /\ {n \in Nodes : ~\E p \in Nodes : <<p, n>> \in Edges} = {entry_point}
    /\ {n \in Nodes : ~\E q \in Nodes : <<n, q>> \in Edges} = {finish_point}
    /\ \A n \in Nodes : n \notin ReachableFrom(n)
    /\ \A n \in Nodes \ {entry_point} : n \in ReachableFrom(entry_point)
    /\ \A n \in Nodes \ {finish_point} : finish_point \in ReachableFrom(n)

\* C18: the stage graph built by Graph.__init__ has the single entry
\* grounding and the single terminal output, has no cycle, every stage is
\* reachable from the entry and the terminal is reachable from every stage.
C18_GraphWellFormed ==
    graph.workflow => WellFormed

\* Graph.__init__ returned with the eleven stages and the workflow built
C18_Witness ==
    /\ graph.workflow /\ run = "built"
    /\ Len(graph.nodes) = Cardinality(Nodes)

\* C12: a stage starts only after all its direct predecessors completed:
\* grounding precedes every analysis stage, the collector follows the four
\* analysis stages, and collector, curator, enricher, briefing, editor and
\* output start each only after the previous one completed.
C12_StartsAfterPredecessors ==
    /\ \A a \in research_nodes : Started(a) => status["grounding"] = "done"
    /\ Started("collector") => \A a \in research_nodes : status[a] = "done"
    /\ \A i \in 2..Len(Chain) : Started(Chain[i]) => status[Chain[i - 1]] = "done"

\* the output stage has started, the last of the chain
C12_Witness ==
    /\ status["output"] = "running"
    /\ snapshots[Len(snapshots)] = "editor"
    /\ snapshots[1] = "grounding"

\* C13: every run of Graph.run ends with each of the eleven stages completed
\* exactly once, one snapshot per stage, the last one from the output stage.
C13_RunEndsComplete ==
    run \in {"finished", "aborted"} =>
        /\ run = "finished"
        /\ \A n \in Nodes : status[n] = "done"
        /\ Len(snapshots) = Cardinality(Nodes)
        /\ \A n \in Nodes : Cardinality({i \in DOMAIN snapshots : snapshots[i] = n}) = 1
        /\ snapshots[Len(snapshots)] = finish_point

CompanyFailed ==
    \/ ca.pc = "raised"
    \/ ca.pc = "done" /\ \E i \in DOMAIN ca.msg : ca.msg[i] = "error"

OthersSucceeded == \A n \in OtherAnalysts : other_data[n] # "empty"

\* C2: if exactly one analysis stage fails (for the company stage: its query
\* generation or its retrieval raises) the run still continues to the
\* collector and the finalization stage.
C2_PartialFailureContinues ==
    (CompanyFailed /\ OthersSucceeded) =>
        /\ run # "aborted"
        /\ status["company_analyst"] = "done"

\* C3: no error raised inside Editor.run or CompanyAnalyzer.run leaves the
\* stage, and the caller of Graph.run never receives an exception.
C3_NoErrorLeavesAStage ==
    /\ status["company_analyst"] # "raised"
    /\ status["editor"] # "raised"
    /\ run # "aborted"

----------------------------------------------------------------------------
(* Claims about the finalization stage (SpecEditor) *)

\* the chunks of phase p that reached the observer, in order
RECURSIVE ChunksOf(_, _)
ChunksOf(events, p) ==
    IF events = <<>> THEN <<>>
    ELSE (IF Head(events).kind = "chunk" /\ Head(events).tag = p
          THEN <<Head(events).text>> ELSE <<>>) \o ChunksOf(Tail(events), p)

Forwarded(p) == Concat(ChunksOf(ed.events, p))

\* C4 as claimed: when the sweep call fails and compose succeeded, the sweep
\* phase returns the compose output verbatim and the finalization output
\* equals the compose output verbatim.
C4_FinalEqualsCompose ==
    (/\ ed.pc = "done" /\ report[1] = "text"
     /\ ed.outcome["compose"] = "ok" /\ ed.outcome["sweep"] = "fallback") =>
        /\ ed.result["sweep"] = ed.result["compose"]
        /\ report[2] = ed.result["compose"][1]

\* C4 as amended: when the sweep call fails and compose succeeded, the sweep
\* phase returns the compose output verbatim, and that text is what format
\* enforcement receives.
C4_SweepFallsBackToCompose ==
    (ed.outcome["compose"] = "ok" /\ ed.outcome["sweep"] = "fallback") =>
        /\ ed.result["sweep"] = ed.result["compose"]
        /\ ed.input["clean"] # None => ed.input["clean"] = ed.result["compose"]

\* the sweep call failed after streaming text that differs from its input,
\* and format enforcement has been entered
C4_Witness ==
    /\ ed.outcome["compose"] = "ok" /\ ed.outcome["sweep"] = "fallback"
    /\ \E i \in DOMAIN ed.events :
          /\ ed.events[i].kind = "chunk" /\ ed.events[i].tag = "sweep"
          /\ ed.events[i].text = <<"x">>
    /\ ed.result["compose"] = Some(<<"x", "x">>)
    /\ ed.input["clean"] # None

\* C5: when the format-enforcement call fails, the phase result, and the text
\* handed to assembly, equal the sweep phase's output verbatim.
C5_CleanFallsBackToSweep ==
    ed.outcome["clean"] = "fallback" =>
        /\ ed.result["clean"] = ed.result["sweep"]
        /\ ed.handed = ed.result["sweep"]

\* format enforcement failed after accumulating text that differs from the
\* sweep output, and the stage returned
C5_Witness ==
    /\ ed.pc = "done" /\ ed.outcome["clean"] = "fallback"
    /\ Strip(ed.acc) # <<>>
    /\ Some(Strip(ed.acc)) # ed.result["sweep"]

\* the atoms of a text that are neither whitespace nor the section header
RECURSIVE EntriesOf(_)
EntriesOf(t) ==
    IF t = <<>> THEN <<>>
    ELSE (IF Head(t) \in WS \cup {"## References"} THEN <<>> ELSE <<Head(t)>>)
         \o EntriesOf(Tail(t))

\* what assembly added after the format-enforcement result
Appended == SubSeq(ed.assembled[1], Len(ed.handed[1]) + 1, Len(ed.assembled[1]))

\* C15: assembly appends a References section to the end of the
\* format-enforcement result if and only if the reference list is non-empty,
\* and the section then holds exactly one entry per reference, in the order
\* of the list.
C15_ReferencesAppended ==
    ed.assembled # None =>
        /\ SubSeq(ed.assembled[1], 1, Len(ed.handed[1])) = ed.handed[1]
        /\ (references = <<>>) <=> (Appended = <<>>)
        /\ (references # <<>>) <=>
              (Len(Appended) > 3 /\ SubSeq(Appended, 1, 4) = <<"\n", "\n", "## References", "\n">>)
        /\ Cardinality({i \in DOMAIN Appended : Appended[i] = "## References"})
              = (IF references = <<>> THEN 0 ELSE 1)
        /\ EntriesOf(Appended) = [i \in DOMAIN references |-> RefLine(references[i])]

\* assembly ran on a non-empty text with more than one reference
C15_Witness ==
    /\ ed.assembled # None /\ ed.pc = "done"
    /\ ed.handed # Some(<<>>)
    /\ Len(references) > 1
    /\ report[1] = "text"

PhaseOrder == <<"compose", "sweep", "clean">>

\* C19: the phases run in the order compose, sweep, format enforcement,
\* assembly and none is re-entered: each generative phase is called at most
\* once, sweep starts only after compose returned and receives its result,
\* format enforcement starts only after sweep returned and receives its
\* result, and assembly runs only after format enforcement returned.
C19_PhasesInOrder ==
    /\ \A p \in Phases : ed.calls[p] <= 1 /\ (ed.calls[p] = 0 <=> ed.input[p] = None)
    /\ \A i \in 2..Len(PhaseOrder) :
          ed.input[PhaseOrder[i]] # None =>
              /\ ed.result[PhaseOrder[i - 1]] # None
              /\ ed.input[PhaseOrder[i]] = ed.result[PhaseOrder[i - 1]]
    /\ \A i \in 1..Len(PhaseOrder) :
          (ed.pc \in {"pull", "forward"} /\ ed.phase = PhaseOrder[i]) =>
              /\ ed.result[PhaseOrder[i]] = None
              /\ \A j \in (i + 1)..Len(PhaseOrder) : ed.calls[PhaseOrder[j]] = 0
              /\ ed.assembled = None
    /\ ed.assembled # None =>
          /\ ed.result["clean"] # None
          /\ ed.handed = ed.result["clean"]
          /\ ed.pc = "done"

\* the four phases ran, and the three generative phases returned three
\* different texts
C19_Witness ==
    /\ ed.assembled # None
    /\ ed.result["compose"] # ed.result["sweep"]
    /\ ed.result["sweep"] # ed.result["clean"]
    /\ ed.result["compose"] # ed.result["clean"]

\* the place of an event in the order of the claim
Rank(e) ==
    IF e.kind = "status"
    THEN CASE e.tag = "initialization" -> 1
           [] e.tag = "collecting_briefings" -> 2
           [] e.tag = "compilation" -> 3
           [] e.tag = "cleanup" -> 6
           [] OTHER -> 0
    ELSE CASE e.tag = "compose" -> 4
           [] e.tag = "sweep" -> 5
           [] e.tag = "clean" -> 7
           [] OTHER -> 0

StatusSent(tag) == \E i \in DOMAIN ed.events : ed.events[i] = Event("status", tag, <<>>)

\* C20: with an observer and a job id, the stage emits 'initialization',
\* 'collecting_briefings', then (if a briefing exists) 'compilation', the
\* compose chunks, the sweep chunks, 'cleanup' and the format-enforcement
\* chunks, in this order; each chunk is forwarded in the order received and
\* before the next chunk is taken from the backend.
C20_EventsInOrder ==
    ObserverPresent =>
        /\ \A i \in DOMAIN ed.events : Rank(ed.events[i]) > 0
        /\ \A i \in 1..(Len(ed.events) - 1) :
              /\ Rank(ed.events[i]) <= Rank(ed.events[i + 1])
              /\ ed.events[i].kind = "status" => Rank(ed.events[i]) < Rank(ed.events[i + 1])
        /\ ed.pc \notin {"idle", "notify_init", "raised"} => StatusSent("initialization")
        /\ StatusSent("collecting_briefings") => StatusSent("initialization")
        /\ StatusSent("compilation") =>
              StatusSent("collecting_briefings") /\ individual_briefings # <<>>
        /\ \A p \in Phases : ed.calls[p] > 0 =>
              StatusSent(IF p = "clean" THEN "cleanup" ELSE "compilation")
        /\ individual_briefings = <<>> => Len(ed.events) <= 2
        /\ ed.pc = "pull" =>
              /\ ed.chunk = <<>>
              /\ Len(ChunksOf(ed.events, ed.phase)) = ed.pulled
              /\ Forwarded(ed.phase) = ed.acc
        /\ ed.pc = "forward" =>
              /\ Len(ChunksOf(ed.events, ed.phase)) = ed.pulled - 1
              /\ Forwarded(ed.phase) \o ed.chunk = ed.acc

\* the stage returned after sending its four statuses, two different chunks
\* of compose before 'cleanup' and a chunk of format enforcement after it
C20_Witness ==
    /\ ObserverPresent /\ ed.pc = "done"
    /\ StatusSent("cleanup")
    /\ ChunksOf(ed.events, "compose") = <<(<<"x">>), (<<" ">>)>>
    /\ ChunksOf(ed.events, "clean") # <<>>
    /\ Len(ed.events) = 7

EditorEntries == {i \in DOMAIN messages : messages[i].by = "editor"}

\* C21: whenever compile_briefings returns, the report is None or a string
\* with non-whitespace content, the stage has appended exactly one narrative
\* entry, and that entry holds a warning line if and only if the report is
\* None.
C21_ReportAndEntryAgree ==
    /\ ed.pc # "done" => EditorEntries = {}
    /\ ed.pc = "done" =>
          /\ \/ report = <<"none">>
             \/ /\ Len(report) = 2 /\ report[1] = "text"
                /\ Strip(report[2]) # <<>>
          /\ EditorEntries = {Len(messages)}
          /\ messages[Len(messages)].warn <=> report = <<"none">>

\* the stage returned without a report although a briefing exists: the
\* compose phase streamed only whitespace
C21_Witness ==
    /\ ed.pc = "done" /\ report = <<"none">>
    /\ individual_briefings # <<>>
    /\ ed.result["compose"] = Some(<<>>)
    /\ messages[Len(messages)].kind = "failed"

\* C6: whenever a briefing exists, the stage never ends with an empty or
\* absent report, for every combination of success, failure or empty output
\* of the three generative calls (the observer never failing).
C6_ReportWheneverBriefing ==
    (ed.pc = "done" /\ ~ed.sendFailed /\ \E k \in DOMAIN briefings : briefings[k] \notin {None, Some(<<>>)}) =>
        /\ report[1] = "text"
        /\ Strip(report[2]) # <<>>

NoContent == \A k \in DOMAIN briefings : briefings[k] = None \/ briefings[k] = Some(<<>>)

\* C7: when no briefing key holds content, the stage makes no generative
\* call, sets the report to None and appends the narrative entry saying that
\* no briefing sections are available.
C7_EmptyInputShortCircuit ==
    NoContent =>
        /\ \A p \in Phases : ed.calls[p] = 0 /\ ed.input[p] = None
        /\ ed.pc = "done" =>
              /\ report = <<"none">>
              /\ messages[Len(messages)] = Entry("editor", "no_briefings", TRUE, 0)

\* the stage returned with every briefing key absent or empty, one of them
\* holding the empty string
C7_Witness ==
    /\ ed.pc = "done" /\ NoContent
    /\ \E k \in DOMAIN briefings : briefings[k] = Some(<<>>)

\* C8 as claimed: with an observer, the concatenation of the chunks forwarded
\* during a phase whose stream ended normally equals the phase's returned
\* result exactly.
C8_ForwardedEqualsResult ==
    \A p \in Phases :
        (ObserverPresent /\ ed.outcome[p] = "ok") => Some(Forwarded(p)) = ed.result[p]

\* C8 as amended: the concatenation of the forwarded chunks equals the text
\* accumulated by the phase; the returned result is that text stripped of
\* leading and trailing whitespace, or the stripped input when the phase fell back.
C8_ForwardedStrippedIsResult ==
    /\ (ObserverPresent /\ ed.pc = "pull") => Forwarded(ed.phase) = ed.acc
    /\ \A p \in Phases :
          /\ (ObserverPresent /\ ed.outcome[p] = "ok") =>
                 ed.result[p] = Some(Strip(Forwarded(p)))
          /\ ed.outcome[p] = "fallback" => ed.result[p] = Some(Strip(ed.input[p][1]))

\* a phase streamed two chunks to the observer, with leading whitespace
C8_Witness ==
    \E p \in Phases :
        /\ ObserverPresent /\ ed.outcome[p] = "ok"
        /\ ChunksOf(ed.events, p) = <<(<<" ">>), (<<"x">>)>>
        /\ ed.result[p] = Some(<<"x">>)

----------------------------------------------------------------------------
(* The finalization stage against a generative backend whose three streams  *)
(* are fixed for the run, so that runs with different observers compare     *)

MaxScriptChunks == 1

PhaseScripts == [chunks : SeqsUpTo(ChunkSet, MaxScriptChunks), fail : BOOLEAN]

ObserverEnv(scr) == [querySeqs |-> QuerySeqs, results |-> SUBSET URLs,
                     briefs |-> BriefingValues, refCounts |-> 0..MaxRefs,
                     chunks |-> ChunkSet, maxChunks |-> 0,
                     fixed |-> TRUE, ph |-> scr, key |-> TRUE]

InitObserver ==
    /\ graph = Built
    /\ status = [n \in Nodes |-> IF n \in {"editor", "output"} THEN "idle" ELSE "done"]
    /\ step = {"editor"}
    /\ run = "running"
    /\ snapshots = BeforeEditor
    /\ obs \in ObsModes
    /\ site_scrape = None
    /\ messages = <<SystemMessage,
                    Entry("financial_analyst", "summary", FALSE, 0),
                    Entry("news_scanner", "summary", FALSE, 0),
                    Entry("industry_analyst", "summary", FALSE, 0),
                    Entry("company_analyst", "subqueries", FALSE, 1),
                    Entry("company_analyst", "summary", FALSE, 1)>>
    /\ company_data = Some([u \in {"u2"} |-> [query |-> "q1", origin |-> 1]])
    /\ other_data = [n \in OtherAnalysts |-> "docs"]
    /\ briefings \in [DOMAIN StageOf -> {None, Some(<<"x">>)}]
    /\ references \in {RefSeq(n) : n \in 0..MaxRefs}
    /\ report = <<"unset">>
    /\ ca = [CaIdle EXCEPT !.pc = "done", !.queries = <<"q1">>, !.qi = 1,
                           !.data = [u \in {"u2"} |-> [query |-> "q1", origin |-> 1]],
                           !.msg = <<"start", "found">>, !.issued = <<"q1">>,
                           !.returned = <<{"u2"}>>,
                           !.wrote = CaReturnKeys]
    /\ ed = EdIdle
    /\ env \in {ObserverEnv(scr) : scr \in [Phases -> PhaseScripts]}

SpecObserver == InitObserver /\ [][NextEditor]_vars

\* what one phase returns under the run's script when no send fails:
\* lines 222-246, 264-287, 335-358
ScriptedPhase(ph, content) ==
    LET sc == env.ph[ph]
    IN  IF sc.fail THEN PhaseFallback(ph, content, Concat(sc.chunks))
        ELSE PhaseResult(ph, Concat(sc.chunks))

\* what edit_report returns under the run's script when no send fails
ScriptedEditReport ==
    LET initial == ScriptedPhase("compose", combined_content)
        edited  == ScriptedPhase("sweep", initial)
        final   == ScriptedPhase("clean", edited)
    IN  IF initial = <<>> \/ edited = <<>> THEN <<>>
        ELSE standardize_markdown(final \o ReferenceSection(references))

\* the report key compile_briefings leaves under the run's script when no
\* send fails: lines 79-93
ScriptedReport ==
    IF individual_briefings = <<>> THEN <<"none">>
    ELSE IF Strip(ScriptedEditReport) = <<>> THEN <<"none">>
    ELSE <<"text", ScriptedEditReport>>

\* C9: the stage's outcome does not depend on the observer: with no observer,
\* with no job id, with a send that succeeds or one that fails, the stage
\* completes with the report the backend's streams determine.
C9_OutcomeIndependentOfObserver ==
    ed.pc \in {"done", "raised"} => (ed.pc = "done" /\ report = ScriptedReport)

\* the part of C9 that holds: as long as no send fails, the observer does not
\* change the report
ReportIndependentOfDelivery ==
    (ed.pc = "done" /\ ~ed.sendFailed) => report = ScriptedReport

----------------------------------------------------------------------------
(* Claims about the company analysis stage (SpecCompany) *)

FailedAsAWhole == ca.pc = "done" /\ \E i \in DOMAIN ca.msg : ca.msg[i] = "error"

WarningRecorded ==
    /\ messages[Len(messages)].by = "company_analyst"
    /\ messages[Len(messages)].kind = "summary"
    /\ messages[Len(messages)].warn

\* C17 as claimed: when an error escapes the sub-query loop, the stage's
\* company_data is empty and a warning entry is recorded in the narrative.
C17_FailureGivesEmptyResult ==
    FailedAsAWhole =>
        /\ company_data = Some(EmptyMap)
        /\ WarningRecorded

\* C17 as amended: when an error escapes the sub-query loop, the stage still
\* returns, company_data holds exactly the documents stored before the error
\* (the site-scrape seed and the documents of the sub-queries that returned),
\* and a warning entry is recorded in the narrative.
C17_FailureKeepsCollected ==
    FailedAsAWhole =>
        /\ status["company_analyst"] = "done"
        /\ company_data # None
        /\ DOMAIN company_data[1] =
              (IF site_scrape # None THEN {company_url} ELSE {})
                \cup UNION {ca.returned[i] : i \in DOMAIN ca.returned}
        /\ Len(ca.returned) < Len(ca.queries)
        /\ WarningRecorded

\* the second retrieval raised after the seed and the first retrieval had
\* stored documents
C17_Witness ==
    /\ FailedAsAWhole
    /\ site_scrape # None
    /\ ca.returned = <<{"u2"}>>
    /\ DOMAIN company_data[1] = {"u1", "u2"}

\* the retrievals that returned a document with locator u
ReturnedBy(u) == {i \in DOMAIN ca.returned : u \in ca.returned[i]}

Last(S) == CHOOSE i \in S : \A j \in S : j <= i

\* C22: every document of the company_data the stage writes carries a query
\* tag: the site-scrape document the default overview query, a retrieved
\* document the sub-query whose retrieval returned it; a locator yielded
\* several times has one entry, with the document and tag of the last one
\* processed.
C22_DocumentsTagged ==
    ca.pc = "done" =>
        /\ company_data = Some(ca.data)
        /\ \A u \in DOMAIN ca.data :
              IF ReturnedBy(u) # {}
              THEN ca.data[u] = [query |-> ca.queries[Last(ReturnedBy(u))],
                                 origin |-> Last(ReturnedBy(u))]
              ELSE /\ u = company_url /\ site_scrape # None
                   /\ ca.data[u] = [query |-> DefaultQuery, origin |-> 0]
        /\ \A u \in URLs :
              (ReturnedBy(u) # {} \/ (u = company_url /\ site_scrape # None))
                  => u \in DOMAIN ca.data

\* the locator of the site-scrape document was returned by two retrievals
\* of different sub-queries, and another locator by the first one only
C22_Witness ==
    /\ ca.pc = "done" /\ site_scrape # None
    /\ ca.returned = <<{"u1", "u2"}, {"u1"}>>
    /\ ca.queries[1] # ca.queries[2]

\* C10: when retrieval for one sub-query raises, that sub-query alone is
\* skipped: every sub-query of the generated set is still issued.
C10_EverySubQueryIssued ==
    ca.pc = "done" => ca.issued = ca.queries

====
